---- MODULE Spec2Model ----
(***************************************************************************)
(* Model of server.js: the socket.io connection handler with its heartbeat *)
(* timer, the in-memory products/orders store and the HTTP handlers that   *)
(* mutate the store and broadcast the change with io.emit.                 *)
(*                                                                         *)
(* Node runs every callback to completion, so each handler is one action.  *)
(* History variables (published, lastOp, lastTick, ticksSincePong, ponged, *)
(* evicted, nRegister, nDeregister) record what a handler did; no handler  *)
(* reads them.                                                             *)
(***************************************************************************)
EXTENDS Integers, Sequences, FiniteSets, TLC

(* ------------------------------ bounds --------------------------------- *)
NumConns == 2        \* the sockets that connect in MonitorSpec and StoreSpec
NumSockets == 3      \* socket ids 1..NumSockets; a socket id connects once
MaxPublish == 3      \* io.emit broadcasts in one behaviour
MaxClock == 1        \* Date.now() ranges over 0..MaxClock
MaxId == 2           \* product ids 1..MaxId (0 stands for a falsy id)
MaxPrice == 2        \* prices 1..MaxPrice of the products in DeleteSpec

(* ------------------------- program constants --------------------------- *)
Threshold == 2       \* if (missedPings > 2)
RecentCount == 5     \* connectionLogs.slice(-5)

Conns == 1..NumSockets

VARIABLES
  products,        \* let products = []
  orders,          \* let orders = []
  connectionLogs,  \* const connectionLogs = []
  connected,       \* socket.connected of each socket id: "new", "open", "closed"
  clientInfo,      \* the closure's clientInfo of each connection
  missedPings,     \* the closure's missedPings of each connection
  timerActive,     \* heartbeatInterval is scheduled (set, not yet cleared)
  clientsCount,    \* io.engine.clientsCount
  inbox,           \* the events each client has been sent, in order
  now,             \* Date.now()
  published,       \* history: the io.emit calls, with the state they saw
  lastOp,          \* history: the handler that ran last and its response
  lastTick,        \* history: what the last heartbeat callback of a socket did
  ticksSincePong,  \* history: heartbeat callbacks since the last pong
  ponged,          \* history: the client has answered a probe
  evicted,         \* history: the heartbeat callback called socket.disconnect(true)
  nRegister,       \* history: 'connection' events handled
  nDeregister      \* history: 'disconnect' events handled

vars == <<products, orders, connectionLogs, connected, clientInfo, missedPings,
          timerActive, clientsCount, inbox, now, published, lastOp, lastTick,
          ticksSincePong, ponged, evicted, nRegister, nDeregister>>

storeVars == <<products, orders>>
socketVars == <<connectionLogs, connected, clientInfo, missedPings, timerActive,
                clientsCount>>
monitorHist == <<lastTick, ticksSincePong, ponged, evicted>>
countHist == <<nRegister, nDeregister>>

(* ------------------------- socket.io behaviour ------------------------- *)
\* The reason socket.io hands the 'disconnect' listener after socket.disconnect(true)
ServerDisconnectReason == "server namespace disconnect"

\* The reasons socket.io hands the 'disconnect' listener when the client or the
\* transport ends the connection
ClientDisconnectReasons == {"client namespace disconnect", "transport close"}

Msg(name, payload, seq) == [name |-> name, payload |-> payload, seq |-> seq]

\* A faulty variant of SocketsOf: every socket that ever connected
SocketsEverConnected(conn) == {c \in Conns : conn[c] # "new"}

\* The sockets io.emit reaches: those connected to the namespace
SocketsOf(conn) == {c \in Conns : conn[c] = "open"}

\* A faulty variant of IoEmit: the packet overtakes those already sent
IoEmitOvertaking(inb, conn, m) ==
  [c \in Conns |-> IF c \in SocketsOf(conn) THEN <<m>> \o inb[c] ELSE inb[c]]

\* io.emit(name, payload): one packet to each connected socket
IoEmit(inb, conn, m) ==
  [c \in Conns |-> IF c \in SocketsOf(conn) THEN Append(inb[c], m) ELSE inb[c]]

\* A faulty variant of SocketEmit: the event goes to every connected socket and c
SocketEmitToAll(inb, c, m) ==
  [d \in Conns |-> IF d = c \/ Len(inb[d]) > 0 THEN Append(inb[d], m) ELSE inb[d]]

\* socket.emit(name, payload) on the new socket
SocketEmit(inb, c, m) == [inb EXCEPT ![c] = Append(@, m)]

(* --------------------------- the store helpers ------------------------- *)
\* A faulty variant of FindIndex: the predicate compares the wrong field (p.price == id)
FindIndexByPrice(ps, id) ==
  IF \E i \in 1..Len(ps) : ps[i].price = id
  THEN CHOOSE i \in 1..Len(ps) :
         ps[i].price = id /\ \A j \in 1..(i - 1) : ps[j].price # id
  ELSE -1

\* products.findIndex(p => p.id == id): first index (1-based), -1 when absent
FindIndex(ps, id) ==
  IF \E i \in 1..Len(ps) : ps[i].id = id
  THEN CHOOSE i \in 1..Len(ps) :
         ps[i].id = id /\ \A j \in 1..(i - 1) : ps[j].id # id
  ELSE -1

\* A faulty variant of Splice: splice(i) without a count drops the tail too
SpliceToEnd(ps, i) == SubSeq(ps, 1, i - 1)

\* ps.splice(i, 1), i counted from 1
Splice(ps, i) == SubSeq(ps, 1, i - 1) \o SubSeq(ps, i + 1, Len(ps))

(* ------------------------------- Init ---------------------------------- *)
NoOp == [op |-> "none", conn |-> 0, code |-> 0, id |-> 0]
NoTick == [fired |-> FALSE, connectedAtIncrement |-> TRUE, connectedAtEmit |-> TRUE]

Init ==
  /\ products = <<>>
  /\ orders = <<>>
  /\ connectionLogs = <<>>
  /\ connected = [c \in Conns |-> "new"]
  /\ clientInfo = [c \in Conns |-> [id |-> c, ip |-> c, connectedAt |-> 0]]
  /\ missedPings = [c \in Conns |-> 0]
  /\ timerActive = [c \in Conns |-> FALSE]
  /\ clientsCount = 0
  /\ inbox = [c \in Conns |-> <<>>]
  /\ now = 0
  /\ published = <<>>
  /\ lastOp = NoOp
  /\ lastTick = [c \in Conns |-> NoTick]
  /\ ticksSincePong = [c \in Conns |-> 0]
  /\ ponged = [c \in Conns |-> FALSE]
  /\ evicted = [c \in Conns |-> FALSE]
  /\ nRegister = 0
  /\ nDeregister = 0

(* ----------------------------- time ------------------------------------ *)
\* The wall clock moves on between callbacks. Timer callbacks are not tied to
\* it: the properties below count heartbeat callbacks, and Date.now() has
\* millisecond grain, so two requests may see the same value.
Advance ==
  /\ now < MaxClock
  /\ now' = now + 1
  /\ lastOp' = [op |-> "advance", conn |-> 0, code |-> 0, id |-> 0]
  /\ UNCHANGED <<storeVars, socketVars, inbox, published, monitorHist, countHist>>

(* ------------------------ io.on('connection') -------------------------- *)
ConnectEntry(info) ==
  [event |-> "connect", id |-> info.id, ip |-> info.ip, connectedAt |-> info.connectedAt]

DisconnectEntry(info, t, reason) ==
  [event |-> "disconnect", id |-> info.id, ip |-> info.ip,
   connectedAt |-> info.connectedAt, disconnectedAt |-> t, reason |-> reason]

\* connectionLogs.push({event: 'connect', ...clientInfo})
OnConnectLog(log, info) == Append(log, ConnectEntry(info))

\* A faulty variant of OnDisconnectLog: the disconnect is not logged
OnDisconnectLogNothing(log, info, t, reason) == log

\* connectionLogs.push({event: 'disconnect', ...clientInfo, disconnectedAt, reason})
OnDisconnectLog(log, info, t, reason) == Append(log, DisconnectEntry(info, t, reason))

\* A new client connects: socket.io fires 'connection' with a fresh socket id.
Connection(c) ==
  /\ connected[c] = "new"
  /\ LET info == [id |-> c, ip |-> c, connectedAt |-> now] IN
       /\ clientInfo' = [clientInfo EXCEPT ![c] = info]
       /\ connectionLogs' = OnConnectLog(connectionLogs, info)
  /\ connected' = [connected EXCEPT ![c] = "open"]
  /\ clientsCount' = clientsCount + 1
  /\ inbox' = SocketEmit(inbox, c, Msg("init_products", products, 0))
  /\ missedPings' = [missedPings EXCEPT ![c] = 0]
  /\ timerActive' = [timerActive EXCEPT ![c] = TRUE]
  /\ nRegister' = nRegister + 1
  /\ lastOp' = [op |-> "connection", conn |-> c, code |-> 0, id |-> 0]
  /\ UNCHANGED <<storeVars, now, published, monitorHist, nDeregister>>

(* ----------------------- socket.on('disconnect') ----------------------- *)
\* What the 'disconnect' listener and socket.io do when socket c closes with
\* `reason`: the listener clears the timer and logs; socket.io drops the socket.
\* The caller decides missedPings' and the history of the heartbeat.
CloseSocket(c, reason) ==
  /\ timerActive' = [timerActive EXCEPT ![c] = FALSE]
  /\ connectionLogs' = OnDisconnectLog(connectionLogs, clientInfo[c], now, reason)
  /\ connected' = [connected EXCEPT ![c] = "closed"]
  /\ clientsCount' = clientsCount - 1
  /\ nDeregister' = nDeregister + 1

\* A faulty variant of SocketConnected: a closed socket still counts as connected
SocketEverConnected(st) == st # "new"

\* socket.connected: socket.io fires 'disconnect' on, and socket.disconnect(true)
\* acts on, a connected socket only
SocketConnected(st) == st = "open"

\* The client leaves or the transport closes.
Disconnect(c, reason) ==
  /\ SocketConnected(connected[c])
  /\ CloseSocket(c, reason)
  /\ lastOp' = [op |-> "disconnect", conn |-> c, code |-> 0, id |-> 0]
  /\ UNCHANGED <<storeVars, clientInfo, missedPings, inbox, now, published,
                 monitorHist, nRegister>>

(* ------------------------- socket.on('error') -------------------------- *)
\* The listener writes to the console and nothing else.
SocketError(c) ==
  /\ connected[c] = "open"
  /\ lastOp' = [op |-> "error", conn |-> c, code |-> 0, id |-> 0]
  /\ UNCHANGED <<storeVars, socketVars, inbox, now, published, monitorHist,
                 countHist>>

(* ---------------------------- the heartbeat ---------------------------- *)
\* A faulty variant of ShouldEvict: an off-by-one threshold test
ShouldEvictAtThreshold(missed) == missed >= Threshold

\* if (missedPings > 2)
ShouldEvict(missed) == missed > Threshold

\* A faulty variant of OnPong: the counter is left as it is
OnPongKeep(missed) == missed

\* socket.on('pong', () => { missedPings = 0; })
OnPong(missed) == 0

\* One run of the setInterval callback of socket c: the test and the forced
\* disconnect, then missedPings++ and socket.emit('ping'), which run whether or
\* not the socket was just disconnected (there is no return after line 71).
\* A faulty variant of IncrementMissed: one counter shared by all sockets
IncrementMissedShared(missed, c) == [d \in Conns |-> missed[d] + 1]

\* missedPings++ on the counter of socket c's own connection closure
IncrementMissed(missed, c) == [missed EXCEPT ![c] = @ + 1]

HeartbeatTick(c) ==
  /\ timerActive[c]
  /\ LET evict == ShouldEvict(missedPings[c]) /\ SocketConnected(connected[c]) IN
       /\ IF evict
          THEN CloseSocket(c, ServerDisconnectReason)
          ELSE UNCHANGED <<timerActive, connectionLogs, connected, clientsCount,
                           nDeregister>>
       /\ evicted' = [evicted EXCEPT ![c] = @ \/ evict]
       /\ lastTick' = [lastTick EXCEPT ![c] =
            [fired |-> TRUE,
             connectedAtIncrement |-> connected'[c] = "open",
             connectedAtEmit |-> connected'[c] = "open"]]
  /\ missedPings' = IncrementMissed(missedPings, c)
  /\ ticksSincePong' = [ticksSincePong EXCEPT ![c] = @ + 1]
  /\ lastOp' = [op |-> "tick", conn |-> c, code |-> 0, id |-> 0]
  /\ UNCHANGED <<storeVars, clientInfo, inbox, now, published, ponged, nRegister>>

\* The client answers a probe.
Pong(c) ==
  /\ connected[c] = "open"
  /\ missedPings' = [missedPings EXCEPT ![c] = OnPong(@)]
  /\ ticksSincePong' = [ticksSincePong EXCEPT ![c] = 0]
  /\ ponged' = [ponged EXCEPT ![c] = TRUE]
  /\ lastOp' = [op |-> "pong", conn |-> c, code |-> 0, id |-> 0]
  /\ UNCHANGED <<storeVars, connectionLogs, connected, clientInfo, timerActive,
                 clientsCount, inbox, now, published, lastTick, evicted, countHist>>

(* -------------------------- request bodies ----------------------------- *)
\* const requiredFields = ['id', 'name', 'price', 'units', 'taken', 'payable']
RequiredFields == <<"id", "name", "price", "units", "taken", "payable">>

\* !req.body[field]: 0 and "" stand for the falsy values of a field (absent,
\* 0, "", null all fail the test alike)
Falsy(body, field) == IF field = "name" THEN body[field] = "" ELSE body[field] = 0

\* A faulty variant of MissingFields: the last three fields are not required
MissingFieldsOfThree(body) == SelectSeq(<<"id", "name", "price">>, LAMBDA f : Falsy(body, f))

\* requiredFields.filter(field => !req.body[field])
MissingFields(body) == SelectSeq(RequiredFields, LAMBDA f : Falsy(body, f))

\* The bodies of POST /product: every field truthy, or one of them falsy
\* (the handler only asks whether any field is missing).
ProductBodies ==
  {b \in [id : 0..MaxId, name : {"", "a"}, price : 0..1, units : 0..1,
          taken : 0..1, payable : 0..1] : Len(MissingFields(b)) <= 1}

\* The items of a POST /checkout body: absent, a string, [] or [item]
ItemsValues ==
  { [truthy |-> FALSE, isArray |-> FALSE, length |-> 0],
    [truthy |-> TRUE, isArray |-> FALSE, length |-> 1],
    [truthy |-> TRUE, isArray |-> TRUE, length |-> 0],
    [truthy |-> TRUE, isArray |-> TRUE, length |-> 1] }

\* The bodies of POST /checkout: items, and an id the client may have put in
CheckoutBodies == [items : ItemsValues, id : {<<>>, <<"custom", 0>>}]

\* !req.body.items || !Array.isArray(req.body.items) || req.body.items.length === 0
BadItems(body) ==
  ~body.items.truthy \/ ~body.items.isArray \/ body.items.length = 0

\* `order_${Date.now()}`
OrderId(t) == <<"order_", t>>

(* ------------------------------ io.emit -------------------------------- *)
\* io.emit(name, payload) as the last store-visible step of a handler: ps and
\* os are the products and orders at the call.
Broadcast(name, payload, ps, os) ==
  LET seq == Len(published) + 1 IN
    /\ inbox' = IoEmit(inbox, connected, Msg(name, payload, seq))
    /\ published' = Append(published,
         [seq |-> seq, name |-> name, payload |-> payload,
          logLen |-> Len(connectionLogs), products |-> ps, orders |-> os])

(* --------------------------- POST /product ----------------------------- *)
\* const product = {...req.body, addedAt: new Date()}
NewProduct(body, t) ==
  [id |-> body.id, name |-> body.name, price |-> body.price, units |-> body.units,
   taken |-> body.taken, payable |-> body.payable, addedAt |-> t]

\* A faulty variant of PushProduct: the product is not stored
PushProductNothing(ps, product) == ps

\* products.push(product)
PushProduct(ps, product) == Append(ps, product)

PostProduct(body) ==
  /\ IF Len(MissingFields(body)) > 0
     THEN /\ lastOp' = [op |-> "postProduct", conn |-> 0, code |-> 400, id |-> 0]
          /\ UNCHANGED <<storeVars, inbox, published>>
     ELSE /\ Len(published) < MaxPublish
          /\ LET product == NewProduct(body, now)
                 ps == PushProduct(products, product) IN
               /\ products' = ps
               /\ Broadcast("new_product", product, ps, orders)
          /\ lastOp' = [op |-> "postProduct", conn |-> 0, code |-> 201, id |-> body.id]
          /\ UNCHANGED orders
  /\ UNCHANGED <<socketVars, now, monitorHist, countHist>>

(* ------------------------ POST /products/reset ------------------------- *)
\* products = []
\* A faulty variant of ResetProducts: the collection is left as it is
ResetProductsNothing(ps) == ps

ResetProducts(ps) == <<>>

PostProductsReset ==
  /\ Len(published) < MaxPublish
  /\ LET ps == ResetProducts(products) IN
       /\ products' = ps
       /\ Broadcast("products_reset", <<>>, ps, orders)
  /\ lastOp' = [op |-> "postProductsReset", conn |-> 0, code |-> 200, id |-> 0]
  /\ UNCHANGED <<orders, socketVars, now, monitorHist, countHist>>

(* ------------------------- DELETE /product/:id ------------------------- *)
\* id ranges over the ids a request can name; p.id == req.params.id compares
\* the stored id with the path segment by value.
DeleteProduct(id) ==
  /\ LET index == FindIndex(products, id) IN
       IF index = -1
       THEN /\ lastOp' = [op |-> "deleteProduct", conn |-> 0, code |-> 404, id |-> id]
            /\ UNCHANGED <<storeVars, inbox, published>>
       ELSE /\ Len(published) < MaxPublish
            /\ LET deletedProduct == products[index]
                   ps == Splice(products, index) IN
                 /\ products' = ps
                 /\ Broadcast("product_deleted", deletedProduct.id, ps, orders)
            /\ lastOp' = [op |-> "deleteProduct", conn |-> 0, code |-> 200, id |-> id,
                          data |-> products[index]]
            /\ UNCHANGED orders
  /\ UNCHANGED <<socketVars, now, monitorHist, countHist>>

(* --------------------------- POST /checkout ---------------------------- *)
\* const order = {...req.body, id: `order_${Date.now()}`, createdAt, status}
NewOrder(body, t) ==
  [items |-> body.items, id |-> OrderId(t), createdAt |-> t, status |-> "pending"]

PostCheckout(body) ==
  /\ IF BadItems(body)
     THEN /\ lastOp' = [op |-> "postCheckout", conn |-> 0, code |-> 400, id |-> 0]
          /\ UNCHANGED <<storeVars, inbox, published>>
     ELSE /\ Len(published) < MaxPublish
          /\ LET order == NewOrder(body, now)
                 os == Append(orders, order) IN
               /\ orders' = os
               /\ Broadcast("new_order", order, products, os)
          /\ lastOp' = [op |-> "postCheckout", conn |-> 0, code |-> 201, id |-> 0]
          /\ UNCHANGED products
  /\ UNCHANGED <<socketVars, now, monitorHist, countHist>>

(* ---------------------------- GET /product ----------------------------- *)
\* The query strings of GET /product; "" stands for an absent parameter
\* (both are falsy). Names are strings of at most one character.
Queries == [name : {"", "A", "b"}, minPrice : {"", "2", "x"}, maxPrice : {"", "1"}]

\* s.toLowerCase() on the names in use
ToLowerCase(s) == IF s = "A" THEN "a" ELSE s

\* hay.includes(needle) for strings of at most one character
Includes(hay, needle) == needle = "" \/ hay = needle

\* parseFloat(s): a number, or NaN for a string that does not start with one
ParseFloat(s) ==
  CASE s = "1" -> [nan |-> FALSE, val |-> 1]
    [] s = "2" -> [nan |-> FALSE, val |-> 2]
    [] OTHER   -> [nan |-> TRUE, val |-> 0]

\* x >= f and x <= f; every comparison with NaN is false
Geq(x, f) == ~f.nan /\ x >= f.val
Leq(x, f) == ~f.nan /\ x <= f.val

\* The three filters in turn, each applied when its parameter is truthy
FilterProducts(ps, q) ==
  LET byName == IF q.name # ""
                THEN SelectSeq(ps, LAMBDA p :
                       Includes(ToLowerCase(p.name), ToLowerCase(q.name)))
                ELSE ps
      byMin == IF q.minPrice # ""
               THEN SelectSeq(byName, LAMBDA p : Geq(p.price, ParseFloat(q.minPrice)))
               ELSE byName
  IN IF q.maxPrice # ""
     THEN SelectSeq(byMin, LAMBDA p : Leq(p.price, ParseFloat(q.maxPrice)))
     ELSE byMin

\* A faulty variant of ProductsAfterFilter: the filter result replaces products
ProductsAfterFilterAssigned(ps, filtered) == filtered

\* let filteredProducts = [...products]: the filters work on a copy held in a
\* local, and products is what it was
ProductsAfterFilter(ps, filtered) == ps

GetProducts(q) ==
  /\ LET filteredProducts == FilterProducts(products, q) IN
       /\ products' = ProductsAfterFilter(products, filteredProducts)
       /\ lastOp' = [op |-> "getProducts", conn |-> 0, code |-> 200, id |-> 0,
                     data |-> filteredProducts]
  /\ UNCHANGED <<orders, socketVars, inbox, now, published, monitorHist, countHist>>

(* -------------------------- GET /product/:id --------------------------- *)
\* products.find(p => p.id == req.params.id)
GetProduct(id) ==
  /\ LET index == FindIndex(products, id) IN
       lastOp' = IF index = -1
                 THEN [op |-> "getProduct", conn |-> 0, code |-> 404, id |-> id]
                 ELSE [op |-> "getProduct", conn |-> 0, code |-> 200, id |-> id,
                       data |-> products[index]]
  /\ UNCHANGED <<storeVars, socketVars, inbox, now, published, monitorHist, countHist>>

(* ----------------------------- GET /debug ------------------------------ *)
\* A faulty variant of SliceLast: the first n entries (slice(0, n))
SliceFirst(log, n) == SubSeq(log, 1, IF Len(log) < n THEN Len(log) ELSE n)

\* log.slice(-n): the entries from index max(length - n, 0) on
SliceLast(log, n) ==
  SubSeq(log, (IF Len(log) - n > 0 THEN Len(log) - n ELSE 0) + 1, Len(log))

\* products[products.length - 1] || null, null being the empty tuple
LastProduct(ps) == IF Len(ps) > 0 THEN <<ps[Len(ps)]>> ELSE <<>>

\* The request log and the process figures (uptime, load, memory) are left out.
GetDebug ==
  /\ lastOp' = [op |-> "getDebug", conn |-> 0, code |-> 200, id |-> 0,
                data |-> [products |-> Len(products), orders |-> Len(orders),
                          connections |-> clientsCount,
                          lastProduct |-> LastProduct(products),
                          recentConnections |-> SliceLast(connectionLogs, RecentCount)]]
  /\ UNCHANGED <<storeVars, socketVars, inbox, now, published, monitorHist, countHist>>

(* -------------------------- GET /system-status ------------------------- *)
GetSystemStatus ==
  /\ lastOp' = [op |-> "getSystemStatus", conn |-> 0, code |-> 200, id |-> 0,
                data |-> [active |-> clientsCount, total |-> Len(connectionLogs),
                          products |-> Len(products), orders |-> Len(orders)]]
  /\ UNCHANGED <<storeVars, socketVars, inbox, now, published, monitorHist, countHist>>

(* ------------------------------- Next ---------------------------------- *)
Next ==
  \/ Advance
  \/ \E c \in Conns : Connection(c)
  \/ \E c \in Conns : \E reason \in ClientDisconnectReasons : Disconnect(c, reason)
  \/ \E c \in Conns : SocketError(c)
  \/ \E c \in Conns : HeartbeatTick(c)
  \/ \E c \in Conns : Pong(c)
  \/ \E body \in ProductBodies : PostProduct(body)
  \/ PostProductsReset
  \/ \E id \in 1..MaxId : DeleteProduct(id)
  \/ \E body \in CheckoutBodies : PostCheckout(body)
  \/ GetDebug
  \/ GetSystemStatus
  \/ \E q \in Queries : GetProducts(q)
  \/ \E id \in 1..MaxId : GetProduct(id)

Spec == Init /\ [][Next]_vars

\* The connection lifecycle and the heartbeat alone: no request is served and
\* the clock stands still (no handler of this part reads the store or branches
\* on the clock).
NextMonitor ==
  \/ \E c \in 1..NumConns : Connection(c)
  \/ \E c \in 1..NumConns : \E reason \in ClientDisconnectReasons : Disconnect(c, reason)
  \/ \E c \in 1..NumConns : SocketError(c)
  \/ \E c \in 1..NumConns : HeartbeatTick(c)
  \/ \E c \in 1..NumConns : Pong(c)

MonitorSpec == Init /\ [][NextMonitor]_vars

\* The requests and the broadcasts, with connections that come and go. A
\* connection leaves by Disconnect; an eviction closes the socket by the same
\* CloseSocket and differs only in the reason logged.
NextStore ==
  \/ \E c \in 1..NumConns : Connection(c)
  \/ \E c \in 1..NumConns : Disconnect(c, "transport close")
  \/ \E body \in ProductBodies : PostProduct(body)
  \/ PostProductsReset
  \/ \E id \in 1..MaxId : DeleteProduct(id)
  \/ \E body \in CheckoutBodies : PostCheckout(body)

StoreSpec == Init /\ [][NextStore]_vars

\* The connection log and its reader: every socket connects and leaves, and
\* GET /debug reads the log.
NextLog ==
  \/ \E c \in Conns : Connection(c)
  \/ \E c \in Conns : \E reason \in ClientDisconnectReasons : Disconnect(c, reason)
  \/ GetDebug

LogSpec == Init /\ [][NextLog]_vars

\* Checkouts against the clock: Date.now() advances between some requests and
\* stands still between others.
NextOrder ==
  \/ Advance
  \/ \E c \in 1..NumConns : Connection(c)
  \/ \E body \in CheckoutBodies : PostCheckout(body)

OrderSpec == Init /\ [][NextOrder]_vars

\* Deleting among products that share an id: the bodies are complete and
\* differ in id and price, so that two products with one id can be told apart.
PricedBodies ==
  [id : 1..MaxId, name : {"a"}, price : 1..MaxPrice, units : {1}, taken : {1},
   payable : {1}]

NextDelete ==
  \/ \E c \in 1..NumConns : Connection(c)
  \/ \E body \in PricedBodies : PostProduct(body)
  \/ \E id \in 1..MaxId : DeleteProduct(id)

DeleteSpec == Init /\ [][NextDelete]_vars

\* The read handlers over a store and a connection log that have content
NextRead ==
  \/ \E c \in 1..NumConns : Connection(c)
  \/ \E body \in PricedBodies : PostProduct(body)
  \/ \E body \in CheckoutBodies : PostCheckout(body)
  \/ \E q \in Queries : GetProducts(q)
  \/ \E id \in 1..MaxId : GetProduct(id)
  \/ GetSystemStatus
  \/ GetDebug

ReadSpec == Init /\ [][NextRead]_vars

(* ===================== properties of the connection log ================ *)
LogHas(n, c, event) ==
  \E i \in 1..n : connectionLogs[i].event = event /\ connectionLogs[i].id = c

\* The connections the first n log entries leave registered
RegisteredAt(n) == {c \in Conns : LogHas(n, c, "connect") /\ ~LogHas(n, c, "disconnect")}

\* The client or the transport ended connection c
LeftByItself(c) ==
  \E i \in 1..Len(connectionLogs) :
    /\ connectionLogs[i].event = "disconnect"
    /\ connectionLogs[i].id = c
    /\ connectionLogs[i].reason \in ClientDisconnectReasons

\* How often broadcast number k reached client c
Received(c, k) == Cardinality({i \in 1..Len(inbox[c]) : inbox[c][i].seq = k})

(* ================================ C1 =================================== *)
\* C1 as stated: a connection that never answers a probe is evicted by its
\* heartbeat timer at tick Threshold+1 = 3: not evicted through ticks 1 and 2,
\* evicted once tick 3 has run.
EvictedAtTickThree ==
  \A c \in Conns :
    ~ponged[c] =>
      /\ ticksSincePong[c] <= Threshold => ~evicted[c]
      /\ (ticksSincePong[c] >= Threshold + 1 /\ ~LeftByItself(c)) => evicted[c]

\* C1 amended: a connection that never answers a probe is evicted by its
\* heartbeat timer at exactly tick Threshold+2 = 4: unless it leaves by itself
\* it is still registered, with its timer running, after ticks 1, 2 and 3, and
\* the forced disconnect is issued on tick 4, after which the timer never runs.
EvictedAtTickFour ==
  \A c \in Conns :
    ~ponged[c] =>
      /\ ticksSincePong[c] <= Threshold + 2
      /\ ticksSincePong[c] <= Threshold + 1 => ~evicted[c]
      /\ (ticksSincePong[c] \in 1..(Threshold + 1) /\ ~LeftByItself(c)) =>
           (connected[c] = "open" /\ timerActive[c])
      /\ ticksSincePong[c] = Threshold + 2 =>
           (evicted[c] /\ connected[c] = "closed" /\ ~timerActive[c])

SilentConnectionEvicted ==
  \E c \in Conns :
    ~ponged[c] /\ evicted[c] /\ ticksSincePong[c] = Threshold + 2 /\ connected[c] = "closed"

(* ================================ C2 =================================== *)
\* C2: once a connection is deregistered, no probe is sent to it and its
\* missed-probe counter is not incremented; the heartbeat callback that evicts
\* sends no probe.
NoProbeAfterDeregistration ==
  \A c \in Conns :
    lastTick[c].fired =>
      (lastTick[c].connectedAtIncrement /\ lastTick[c].connectedAtEmit)

(* ================================ C3 =================================== *)
\* C3: the heartbeat timer issues a forced disconnect only when more than
\* Threshold consecutive probes have gone unanswered: at the step that evicts,
\* more than Threshold heartbeat callbacks have run since the last pong (or
\* since registration). So a connection that answers between every two
\* callbacks is never evicted.
EvictsOnlyUnanswered ==
  [][\A c \in Conns :
       (evicted'[c] /\ ~evicted[c]) => ticksSincePong[c] > Threshold]_vars

AnsweringThenEvicted ==
  \E c \in Conns : ponged[c] /\ evicted[c] /\ ticksSincePong[c] = Threshold + 2

(* ================================ C4 =================================== *)
\* C4: every broadcast reaches exactly the connections registered when io.emit
\* was called (those with a connect and no disconnect in the log at that
\* moment), once each, under the name it was published with; a connection
\* deregistered before, or registered after, does not receive it.
BroadcastToRegistered ==
  \A k \in 1..Len(published) :
    \A c \in Conns :
      /\ Received(c, k) = IF c \in RegisteredAt(published[k].logLen) THEN 1 ELSE 0
      /\ \A i \in 1..Len(inbox[c]) :
           inbox[c][i].seq = k =>
             /\ inbox[c][i].name = published[k].name
             /\ inbox[c][i].payload = published[k].payload

BroadcastSkipsDeregistered ==
  \E k \in 1..Len(published) :
    \E c, d \in Conns :
      /\ c \in RegisteredAt(published[k].logLen)
      /\ LogHas(published[k].logLen, d, "disconnect")
      /\ Received(c, k) = 1
      /\ Received(d, k) = 0

(* ================================ C5 =================================== *)
MutationOps == {"postProduct", "postProductsReset", "deleteProduct", "postCheckout"}

\* C5: every successful mutation publishes exactly one event, of the name and
\* payload of the operation, and the store io.emit sees is the store after the
\* mutation: new_product with the product just appended, product_deleted with
\* the id of the product removed, products_reset with products empty,
\* new_order with the order just appended.
MutationPublishesItsEvent ==
  [][(lastOp'.op \in MutationOps /\ lastOp'.code \in {200, 201}) =>
       /\ Len(published') = Len(published) + 1
       /\ SubSeq(published', 1, Len(published)) = published
       /\ LET e == published'[Len(published')] IN
            /\ e.products = products'
            /\ e.orders = orders'
            /\ lastOp'.op = "postProduct" =>
                 /\ e.name = "new_product"
                 /\ e.payload.id = lastOp'.id
                 /\ products' = Append(products, e.payload)
            /\ lastOp'.op = "deleteProduct" =>
                 /\ e.name = "product_deleted"
                 /\ e.payload = lastOp'.id
                 /\ Len(products') = Len(products) - 1
                 /\ \E i \in 1..Len(products) :
                      /\ products[i].id = e.payload
                      /\ products' = SubSeq(products, 1, i - 1)
                                       \o SubSeq(products, i + 1, Len(products))
            /\ lastOp'.op = "postProductsReset" =>
                 /\ e.name = "products_reset"
                 /\ products' = <<>>
            /\ lastOp'.op = "postCheckout" =>
                 /\ e.name = "new_order"
                 /\ orders' = Append(orders, e.payload)]_vars

ProductCreatedAndPublished ==
  /\ lastOp.op = "postProduct" /\ lastOp.code = 201
  /\ Len(published) > 0
  /\ published[Len(published)].name = "new_product"
  /\ \E c \in Conns :
       /\ Len(inbox[c]) > 0
       /\ inbox[c][Len(inbox[c])].name = "new_product"
       /\ inbox[c][Len(inbox[c])].payload.id = lastOp.id

(* ================================ C6 =================================== *)
\* C6: after a successful create of a product with id i the products
\* collection holds exactly one product with id i.
CreatedIdStoredOnce ==
  (lastOp.op = "postProduct" /\ lastOp.code = 201) =>
    Cardinality({i \in 1..Len(products) : products[i].id = lastOp.id}) = 1

(* ================================ C7 =================================== *)
\* C7: a delete of an id no stored product has answers 404, leaves products
\* and orders as they were and publishes nothing.
DeleteAbsentIsNotFound ==
  [][(lastOp'.op = "deleteProduct"
        /\ ~\E i \in 1..Len(products) : products[i].id = lastOp'.id) =>
       /\ lastOp'.code = 404
       /\ UNCHANGED <<products, orders, inbox, published>>]_vars

DeleteAbsentAnswered ==
  /\ lastOp.op = "deleteProduct" /\ lastOp.code = 404
  /\ Len(products) > 0
  /\ \E c \in Conns : connected[c] = "open"

(* ================================ C8 =================================== *)
\* C8: the disconnect entry logged for a connection the heartbeat timer
\* evicted carries the reason "liveness timeout".
EvictionReasonIsLivenessTimeout ==
  \A i \in 1..Len(connectionLogs) :
    (connectionLogs[i].event = "disconnect" /\ evicted[connectionLogs[i].id]) =>
      connectionLogs[i].reason = "liveness timeout"

(* ================================ C9 =================================== *)
\* C9: after the 'error' event of a socket the connection is deregistered, its
\* timer is stopped and the log ends with its disconnect entry, reason "error".
ErrorDisconnects ==
  lastOp.op = "error" =>
    /\ connected[lastOp.conn] = "closed"
    /\ ~timerActive[lastOp.conn]
    /\ Len(connectionLogs) > 0
    /\ connectionLogs[Len(connectionLogs)].event = "disconnect"
    /\ connectionLogs[Len(connectionLogs)].id = lastOp.conn
    /\ connectionLogs[Len(connectionLogs)].reason = "error"

LogEntriesOf(c, event) ==
  {i \in 1..Len(connectionLogs) :
     connectionLogs[i].event = event /\ connectionLogs[i].id = c}

\* C11: deregistration is idempotent: the log holds at most one disconnect
\* entry per connection id, after that id's single connect entry, and it holds
\* one exactly when the socket is closed; so no second deregistration of an id
\* (a client disconnect after an eviction, a further heartbeat callback) adds
\* to the log or lowers the active count again.
DeregisteredOnce ==
  \A c \in Conns :
    /\ Cardinality(LogEntriesOf(c, "disconnect")) <= 1
    /\ Cardinality(LogEntriesOf(c, "connect")) = IF connected[c] = "new" THEN 0 ELSE 1
    /\ \A i \in LogEntriesOf(c, "disconnect") :
         \E j \in LogEntriesOf(c, "connect") : j < i
    /\ Cardinality(LogEntriesOf(c, "disconnect")) = IF connected[c] = "closed" THEN 1 ELSE 0
    /\ connected[c] = "closed" => ~timerActive[c]

EvictedLoggedOnce ==
  \E c, d \in Conns :
    /\ evicted[c] /\ Cardinality(LogEntriesOf(c, "disconnect")) = 1
    /\ LeftByItself(d) /\ Cardinality(LogEntriesOf(d, "disconnect")) = 1
    /\ clientsCount = 0

(* ================================ C12 ================================== *)
\* C12: a registration appends exactly one connect entry to the log and sends
\* init_products, with the products of that instant, to the new connection
\* only: no other connection receives anything, and products, orders and the
\* published events are as before.
RegistrationSendsSnapshot ==
  [][lastOp'.op = "connection" =>
       LET c == lastOp'.conn IN
         /\ Len(connectionLogs') = Len(connectionLogs) + 1
         /\ SubSeq(connectionLogs', 1, Len(connectionLogs)) = connectionLogs
         /\ connectionLogs'[Len(connectionLogs')].event = "connect"
         /\ connectionLogs'[Len(connectionLogs')].id = c
         /\ inbox'[c] = Append(inbox[c],
              [name |-> "init_products", payload |-> products, seq |-> 0])
         /\ \A d \in Conns \ {c} : inbox'[d] = inbox[d]
         /\ UNCHANGED <<products, orders, published>>]_vars

SnapshotToNewcomerOnly ==
  /\ lastOp.op = "connection"
  /\ Len(products) > 0
  /\ inbox[lastOp.conn] = <<[name |-> "init_products", payload |-> products, seq |-> 0]>>
  /\ \E d \in Conns \ {lastOp.conn} :
       /\ connected[d] = "open"
       /\ Len(inbox[d]) > 1
       /\ inbox[d][Len(inbox[d])].name # "init_products"

(* ================================ C13 ================================== *)
\* A POST /product body, or the product made of it, that lacks a required field
LacksRequiredField(body) ==
  \/ body.id = 0 \/ body.name = "" \/ body.price = 0
  \/ body.units = 0 \/ body.taken = 0 \/ body.payable = 0

\* A POST /checkout body, or the order made of it, whose items are not a
\* non-empty array
LacksItems(body) ==
  ~(body.items.truthy /\ body.items.isArray /\ body.items.length > 0)

\* C13: a create with a missing required field, and a checkout without a
\* non-empty items array, is rejected before the store is touched: a request
\* answered 400 leaves products, orders, every inbox and the published events
\* as they were, and a request that is not answered 400 stored a product with
\* every required field, or an order with a non-empty items array.
InvalidRequestRejected ==
  [][/\ lastOp'.op = "postProduct" =>
          IF lastOp'.code = 400
          THEN UNCHANGED <<products, orders, inbox, published>>
          ELSE /\ Len(products') = Len(products) + 1
               /\ ~LacksRequiredField(products'[Len(products')])
     /\ lastOp'.op = "postCheckout" =>
          IF lastOp'.code = 400
          THEN UNCHANGED <<products, orders, inbox, published>>
          ELSE /\ Len(orders') = Len(orders) + 1
               /\ ~LacksItems(orders'[Len(orders')])]_vars

InvalidCreateAnswered ==
  /\ lastOp.op = "postProduct" /\ lastOp.code = 400
  /\ Len(products) > 0
  /\ Len(orders) > 0
  /\ \E c \in Conns : connected[c] = "open"

(* ================================ C14 ================================== *)
\* C14: the connection log is append-only (in every step the old log is a
\* prefix of the new one), and GET /debug returns its last RecentCount = 5
\* entries, or all of them when there are fewer, in insertion order.
LogAppendOnly ==
  [][/\ Len(connectionLogs') >= Len(connectionLogs)
     /\ SubSeq(connectionLogs', 1, Len(connectionLogs)) = connectionLogs
     /\ lastOp'.op = "getDebug" =>
          LET r == lastOp'.data.recentConnections
              n == Len(connectionLogs) IN
            /\ connectionLogs' = connectionLogs
            /\ Len(r) = IF n < RecentCount THEN n ELSE RecentCount
            /\ \A i \in 1..Len(r) : r[i] = connectionLogs[n - Len(r) + i]]_vars

RecentOfLongLog ==
  /\ lastOp.op = "getDebug"
  /\ Len(connectionLogs) > RecentCount
  /\ Len(lastOp.data.recentConnections) = RecentCount

(* ================================ C15 ================================== *)
\* C15: on each connection the broadcast events arrive in publish order: every
\* received event is the publish of its sequence number, and of two received
\* events the one published first is received first.
ArrivalInPublishOrder ==
  \A c \in Conns :
    /\ \A i \in 1..Len(inbox[c]) :
         inbox[c][i].seq > 0 =>
           /\ inbox[c][i].seq <= Len(published)
           /\ published[inbox[c][i].seq].name = inbox[c][i].name
           /\ published[inbox[c][i].seq].payload = inbox[c][i].payload
    /\ \A i, j \in 1..Len(inbox[c]) :
         (inbox[c][i].seq > 0 /\ inbox[c][j].seq > 0 /\
          inbox[c][i].seq < inbox[c][j].seq) => i < j

ReceivedTwoPublishes ==
  \E c \in Conns : \E i, j \in 1..Len(inbox[c]) :
    /\ i < j
    /\ inbox[c][i].name = "new_product"
    /\ inbox[c][j].name = "product_deleted"
    /\ inbox[c][i].seq + 1 = inbox[c][j].seq

(* ================================ C16 ================================== *)
\* C16: the liveness monitors are independent: a heartbeat tick (evicting or
\* not) or a pong of one connection leaves the missed counter, the connection
\* status and the timer of every other connection unchanged and sends it
\* nothing.
MonitorsIndependent ==
  [][lastOp'.op \in {"tick", "pong"} =>
       \A b \in Conns \ {lastOp'.conn} :
         /\ missedPings'[b] = missedPings[b]
         /\ connected'[b] = connected[b]
         /\ timerActive'[b] = timerActive[b]
         /\ inbox'[b] = inbox[b]]_vars

EvictedBesideLiveConnection ==
  \E a, b \in Conns :
    /\ a # b
    /\ lastOp.op = "tick" /\ lastOp.conn = a
    /\ evicted[a] /\ connected[a] = "closed"
    /\ connected[b] = "open" /\ timerActive[b]
    /\ ponged[b] /\ missedPings[b] = 1

(* ================================ C17 ================================== *)
\* The view a client keeps: the init_products snapshot, then each event in
\* arrival order. new_product appends the payload, product_deleted removes the
\* first entry with the payload's id, products_reset empties the view, and
\* new_order does not concern products.
RemoveFirstWithId(view, id) ==
  LET hits == {i \in 1..Len(view) : view[i].id = id} IN
    IF hits = {} THEN view
    ELSE LET k == CHOOSE i \in hits : \A j \in hits : i <= j IN
           [i \in 1..(Len(view) - 1) |-> IF i < k THEN view[i] ELSE view[i + 1]]

ApplyEvent(view, m) ==
  CASE m.name = "init_products"   -> m.payload
    [] m.name = "new_product"     -> Append(view, m.payload)
    [] m.name = "product_deleted" -> RemoveFirstWithId(view, m.payload)
    [] m.name = "products_reset"  -> <<>>
    [] OTHER                      -> view

RECURSIVE Replay(_, _)
Replay(view, msgs) ==
  IF msgs = <<>> THEN view
  ELSE Replay(ApplyEvent(view, Head(msgs)), Tail(msgs))

\* C17: for every registered connection, the init_products snapshot followed
\* by the events received since, replayed in arrival order, gives the server's
\* products collection.
ReplayedViewIsProducts ==
  \A c \in Conns :
    connected[c] = "open" =>
      /\ Len(inbox[c]) > 0
      /\ inbox[c][1].name = "init_products"
      /\ Replay(<<>>, inbox[c]) = products

ViewFollowedAllEvents ==
  \E c \in Conns :
    /\ connected[c] = "open"
    /\ Len(inbox[c]) = 3
    /\ inbox[c][1].payload # <<>>
    /\ inbox[c][2].name = "product_deleted"
    /\ inbox[c][3].name = "new_product"
    /\ products # <<>>

(* ================================ C18 ================================== *)
\* C18: no two orders in the orders collection share an id, two checkouts at
\* the same clock value included.
OrderIdsDistinct ==
  \A i, j \in 1..Len(orders) : i # j => orders[i].id # orders[j].id

ReadOps == {"getProducts", "getProduct", "getSystemStatus", "getDebug"}

\* C20: GET /product with any filters, GET /product/:id, GET /system-status
\* and GET /debug leave products, orders and the connection log as they were
\* and send no event to any connection.
ReadsChangeNothing ==
  [][lastOp'.op \in ReadOps =>
       /\ products' = products
       /\ orders' = orders
       /\ connectionLogs' = connectionLogs
       /\ inbox' = inbox
       /\ published' = published]_vars

FilteredListOfFullStore ==
  /\ lastOp.op = "getProducts" /\ lastOp.code = 200
  /\ Len(products) = 2
  /\ Len(lastOp.data) = 1
  /\ orders # <<>>
  /\ \E c \in Conns : Len(inbox[c]) > 1

====
